---- MODULE Spec2Model ----
(***************************************************************************)
(* FFmux: the render server (POST /render, the jobs Map) and renderJob     *)
(* (timeline resolution, progress translation).                            *)
(*                                                                         *)
(* Times are integers in milliseconds; the source computes in seconds with *)
(* JavaScript numbers, and the model uses exact arithmetic on the same     *)
(* quantities scaled by MsPerSecond.  An optional JavaScript value is a    *)
(* sequence: << >> is undefined, <<v>> is the value v.                     *)
(***************************************************************************)
EXTENDS Integers, Sequences, FiniteSets, TLC

VARIABLES
    uploads,    \* the file names present in the upload directory
    jobs,       \* the jobs Map of the server: job id -> job object, or NoJob
    run,        \* per job id, the renderJob invocation made for it, with
                \* whether a progress marker has arrived (markerSeen) and
                \* how many status events it has emitted (emitted)
    lastReq,    \* the body of the latest POST /render request
    lastResp,   \* the response sent to the latest POST /render request
    cIn,        \* renderJob taken alone: its arguments
    cOut        \* renderJob taken alone: its outcome, << >> before it has run

vars == <<uploads, jobs, run, lastReq, lastResp, cIn, cOut>>

(***************************************************************************)
(* Bounds of the model.                                                    *)
(***************************************************************************)
MaxJobs == 2        \* job ids are 1..MaxJobs
MaxElapsed == 2     \* elapsed-time markers are 0..MaxElapsed seconds
MaxItems == 3       \* timelines given to renderJob alone have 1..MaxItems items
MaxSide == 4        \* sources given to a scaling filter are 1..MaxSide pixels a side
MaxBlocks == 2      \* SRT texts given to parseSRT have 0..MaxBlocks blocks
MaxHalfSeconds == 20 \* totals given to the progress handler alone are 1..MaxHalfSeconds half seconds

(***************************************************************************)
(* Program constants.                                                      *)
(***************************************************************************)
MsPerSecond == 1000
DefaultDurationSeconds == 5
DefaultDuration == DefaultDurationSeconds * MsPerSecond
ConcurrencyLimit == 1

Undefined == << >>
Some(v) == <<v>>
IsDefined(o) == o # Undefined
Val(o) == o[1]

Max(a, b) == IF a >= b THEN a ELSE b
Min(a, b) == IF a <= b THEN a ELSE b

(***************************************************************************)
(* JavaScript conversions used on the resolution string.  A string is a   *)
(* sequence of one-character strings.                                      *)
(***************************************************************************)
DigitChars == <<"0", "1", "2", "3", "4", "5", "6", "7", "8", "9">>
IsDigit(c) == \E i \in 1..10 : DigitChars[i] = c
DigitVal(c) == (CHOOSE i \in 1..10 : DigitChars[i] = c) - 1

RECURSIVE DigitsValue(_)
DigitsValue(s) ==
    IF s = << >> THEN 0
    ELSE 10 * DigitsValue(SubSeq(s, 1, Len(s) - 1)) + DigitVal(s[Len(s)])

\* Number(s): <<n>> for a number, << >> for NaN.  Number("") is 0.
Number(s) ==
    IF \A i \in 1..Len(s) : IsDigit(s[i]) THEN Some(DigitsValue(s)) ELSE Undefined

\* s.split('x')
RECURSIVE SplitX(_)
SplitX(s) ==
    IF \A i \in 1..Len(s) : s[i] # "x" THEN <<s>>
    ELSE LET k == CHOOSE i \in 1..Len(s) :
                      s[i] = "x" /\ \A h \in 1..(i - 1) : s[h] # "x"
         IN <<SubSeq(s, 1, k - 1)>> \o SplitX(SubSeq(s, k + 1, Len(s)))

\* !v for v a number, NaN or undefined
Falsy(o) == o = Undefined \/ o = Some(0)

\* !v for v a string or undefined
FalsyString(o) == o = Undefined \/ o = Some("")

\* const [width, height] = resolution.split('x').map(Number)
ParseResolution(resolution) ==
    LET parts == SplitX(resolution)
    IN [width  |-> Number(parts[1]),
        height |-> IF Len(parts) >= 2 THEN Number(parts[2]) ELSE Undefined]

ResolutionInvalid(resolution) ==
    LET r == ParseResolution(resolution)
    IN Falsy(r.width) \/ Falsy(r.height)

(***************************************************************************)
(* Timeline items.  Fields an item does not give are Undefined.            *)
(***************************************************************************)
Item(type, filename, text, style, cut, duration, startTime) ==
    [type |-> type, filename |-> filename, text |-> text, style |-> style,
     cut |-> cut, duration |-> duration, startTime |-> startTime,
     scaling |-> Undefined, volume |-> Undefined, fontSize |-> Undefined,
     position |-> Undefined]

TextStyleNames == {"basic", "outlined", "dark", "tiktok", "subtitle"}

\* TEXT_STYLES, by the fontSize of each preset
TEXT_STYLES ==
    [name \in TextStyleNames |-> IF name = "subtitle" THEN 48 ELSE 72]

\* ffmpeg.ffprobe(filePath, cb): resolve(5) on error, else format.duration || 5.
\* probe.duration maps a file name to << >> (the probe failed) or <<d>>
\* (format.duration); probe.audio is the set of files hasAudioStream answers
\* true for.
ProbedDuration(probe, filename) ==
    IF Falsy(probe.duration[filename]) THEN DefaultDuration
    ELSE Val(probe.duration[filename])

\* hasAudioStream(filePath)
HasAudioStream(probe, filename) == filename \in probe.audio

CutStart(item) == IF IsDefined(item.cut) THEN item.cut[1] ELSE 0
CutEnd(item, probed) == IF IsDefined(item.cut) THEN item.cut[2] ELSE probed

\* video: endTime - startTime
VideoSegment(item, probe) ==
    CutEnd(item, ProbedDuration(probe, Val(item.filename))) - CutStart(item)

\* ImageSegment with a missing duration counted as 0
ImageSegmentNoDefault(item) ==
    IF Falsy(item.duration) THEN 0 ELSE Val(item.duration)

\* image: item.duration || 5
ImageSegment(item) ==
    IF Falsy(item.duration) THEN DefaultDuration ELSE Val(item.duration)

\* audio: item.duration ? item.duration : endTime - startTime
AudioSegment(item, probe) ==
    IF Falsy(item.duration)
    THEN CutEnd(item, ProbedDuration(probe, Val(item.filename))) - CutStart(item)
    ELSE Val(item.duration)

\* item.startTime !== undefined ? item.startTime : timelineCursor
OverlayStart(item, timelineCursor) ==
    IF IsDefined(item.startTime) THEN Val(item.startTime) ELSE timelineCursor

Mapped(fileMap, item) == IsDefined(item.filename) /\ Val(item.filename) \in fileMap

(***************************************************************************)
(* textStyles.js: parseSRT and srtTimeToSeconds.  Times are in ms; NaN is  *)
(* << >>.                                                                  *)
(***************************************************************************)
Whitespace == {" ", "\n", "\t", "\r"}

RECURSIVE TrimStart(_)
TrimStart(s) ==
    IF s # << >> /\ Head(s) \in Whitespace THEN TrimStart(Tail(s)) ELSE s

RECURSIVE TrimEnd(_)
TrimEnd(s) ==
    IF s # << >> /\ s[Len(s)] \in Whitespace
    THEN TrimEnd(SubSeq(s, 1, Len(s) - 1)) ELSE s

\* s.trim()
Trim(s) == TrimEnd(TrimStart(s))

\* sep occurs in s at position i
OccursAt(s, sep, i) ==
    i + Len(sep) - 1 <= Len(s) /\ SubSeq(s, i, i + Len(sep) - 1) = sep

\* the pieces of s from position start on, the scan for sep being at i
RECURSIVE SplitFrom(_, _, _, _)
SplitFrom(s, sep, i, start) ==
    IF i > Len(s) THEN <<SubSeq(s, start, Len(s))>>
    ELSE IF OccursAt(s, sep, i)
    THEN <<SubSeq(s, start, i - 1)>>
         \o SplitFrom(s, sep, i + Len(sep), i + Len(sep))
    ELSE SplitFrom(s, sep, i + 1, start)

\* s.split(sep), sep not empty
Split(s, sep) == SplitFrom(s, sep, 1, 1)

\* lines.join(sep)
RECURSIVE Join(_, _)
Join(lines, sep) ==
    IF lines = << >> THEN << >>
    ELSE IF Len(lines) = 1 THEN lines[1]
    ELSE (lines[1] \o sep) \o Join(Tail(lines), sep)

\* s.replace(/pat/g, rep) for a literal pat
ReplaceAll(s, pat, rep) == Join(Split(s, pat), rep)

RECURSIVE DigitPrefix(_)
DigitPrefix(s) ==
    IF s # << >> /\ IsDigit(Head(s)) THEN <<Head(s)>> \o DigitPrefix(Tail(s))
    ELSE << >>

\* parseInt(s): leading white space skipped, then the digits up to the first
\* other character; NaN when there is no digit (or s is undefined)
ParseInt(s) ==
    IF s = Undefined THEN Undefined
    ELSE LET digits == DigitPrefix(TrimStart(Val(s)))
         IN IF digits = << >> THEN Undefined ELSE Some(DigitsValue(digits))

\* srtTimeToSeconds(timeString): threw is the TypeError of seconds.split
\* (or timeString.split) on undefined
SrtTimeToSeconds(timeString) ==
    IF timeString = Undefined THEN [threw |-> TRUE, value |-> Undefined]
    ELSE LET parts == Split(Val(timeString), <<":">>)
         IN IF Len(parts) < 3 THEN [threw |-> TRUE, value |-> Undefined]
            ELSE LET sm == Split(parts[3], <<",">>)
                     hours == ParseInt(Some(parts[1]))
                     minutes == ParseInt(Some(parts[2]))
                     secs == ParseInt(Some(sm[1]))
                     ms == ParseInt(IF Len(sm) >= 2 THEN Some(sm[2])
                                    ELSE Undefined)
                 IN [threw |-> FALSE,
                     value |->
                        IF Undefined \in {hours, minutes, secs, ms}
                        THEN Undefined
                        ELSE Some(Val(hours) * 3600 * MsPerSecond
                                  + Val(minutes) * 60 * MsPerSecond
                                  + Val(secs) * MsPerSecond + Val(ms))]

\* BlockKept with a two-line block kept too
BlockKeptFromTwoLines(lines) == Len(lines) >= 2

\* if (lines.length >= 3)
BlockKept(lines) == Len(lines) >= 3

\* the object parseSRT pushes for a block
Subtitle(lines, startTime, endTime) ==
    [type |-> "text", text |-> Join(SubSeq(lines, 3, Len(lines)), <<"\n">>),
     style |-> "subtitle", startTime |-> startTime,
     duration |-> IF Undefined \in {startTime, endTime} THEN Undefined
                  ELSE Some(Val(endTime) - Val(startTime)),
     position |-> "bottom-center"]

\* blocks.forEach over the first n blocks
RECURSIVE ParseBlocks(_, _)
ParseBlocks(blocks, n) ==
    IF n = 0 THEN [threw |-> FALSE, subtitles |-> << >>]
    ELSE LET before == ParseBlocks(blocks, n - 1)
             lines == Split(blocks[n], <<"\n">>)
             timecode == Split(lines[2], <<" ", "-", "-", ">", " ">>)
             startTime == SrtTimeToSeconds(Some(timecode[1]))
             endTime == SrtTimeToSeconds(IF Len(timecode) >= 2
                                         THEN Some(timecode[2]) ELSE Undefined)
         IN IF before.threw \/ ~BlockKept(lines) THEN before
            ELSE IF startTime.threw \/ endTime.threw
            THEN [before EXCEPT !.threw = TRUE]
            ELSE [before EXCEPT !.subtitles =
                     Append(@, Subtitle(lines, startTime.value, endTime.value))]

\* parseSRT(content)
ParseSRT(content) ==
    LET normalized == ReplaceAll(content, <<"\\", "n">>, <<"\n">>)
        blocks == Split(Trim(normalized), <<"\n", "\n">>)
    IN ParseBlocks(blocks, Len(blocks))

(***************************************************************************)
(* SCALING_MODES and getScalingFilter.  A filter expression is the sequence *)
(* of the pieces of its text; {width} and {height} are pieces of their own. *)
(***************************************************************************)
ScalingModeNames == {"fill", "contain", "cover", "scale-down", "none"}

Pad ==
    <<",pad=", "{width}", ":", "{height}", ":((", "{width}", "-iw)/2):((",
      "{height}", "-ih)/2)">>

SCALING_MODES ==
    [mode \in ScalingModeNames |->
        CASE mode = "fill" -> <<"scale=", "{width}", ":", "{height}">>
          [] mode = "contain" ->
                <<"scale='if(gte(iw/ih,", "{width}", "/", "{height}", "),min(",
                  "{width}", ",iw),-1)':'if(gte(iw/ih,", "{width}", "/",
                  "{height}", "),-1,min(", "{height}", ",ih))'">> \o Pad
          [] mode = "cover" ->
                <<"scale='if(gte(iw/ih,", "{width}", "/", "{height}", "),",
                  "{height}", "*(iw/ih),", "{width}", ")':'if(gte(iw/ih,",
                  "{width}", "/", "{height}", "),", "{height}", ",", "{width}",
                  "/(iw/ih))',crop=", "{width}", ":", "{height}">>
          [] mode = "scale-down" ->
                <<"scale='if(gte(iw/ih,", "{width}", "/", "{height}",
                  "),min(iw,", "{width}", "),-1)':'if(gte(iw/ih,", "{width}",
                  "/", "{height}", "),-1,min(ih,", "{height}", "))'">> \o Pad
          [] mode = "none" ->
                <<"scale='if(gt(iw,", "{width}", "),", "{width}",
                  ",-1)':'if(gt(ih,", "{height}", "),", "{height}", ",-1)'">>
                \o Pad]

\* the property names every object literal inherits from Object.prototype
ObjectPrototypeNames ==
    {"constructor", "toString", "toLocaleString", "valueOf", "hasOwnProperty",
     "isPrototypeOf", "propertyIsEnumerable", "__proto__", "__defineGetter__",
     "__defineSetter__", "__lookupGetter__", "__lookupSetter__"}

\* filter.replace(/{width}/g, width.toString()).replace(/{height}/g, ...)
ReplaceSize(filter, width, height) ==
    [k \in 1..Len(filter) |->
        IF filter[k] = "{width}" THEN ToString(width)
        ELSE IF filter[k] = "{height}" THEN ToString(height)
        ELSE filter[k]]

ErrNotAFunction == "filter.replace is not a function"

\* getScalingFilter(mode): SCALING_MODES[mode] || SCALING_MODES.cover, then
\* the replaces.  SCALING_MODES[mode] for an inherited name is a function or
\* an object: truthy, and without a replace method.
GetScalingFilter(mode, width, height) ==
    IF mode \in ScalingModeNames
    THEN [threw |-> FALSE,
          filter |-> ReplaceSize(SCALING_MODES[mode], width, height)]
    ELSE IF mode \in ObjectPrototypeNames
    THEN [threw |-> TRUE, filter |-> << >>]
    ELSE [threw |-> FALSE,
          filter |-> ReplaceSize(SCALING_MODES["cover"], width, height)]

DefaultScaling == "cover"

\* gte(iw/ih, W/H)
AtLeastFrameAspect(iw, ih, W, H) == iw * H >= W * ih

\* a scale dimension of -1: the other dimension times the source's aspect
\* ratio, to the nearest integer
KeepAspect(other, num, den) == (2 * other * num + den) \div (2 * den)

\* the size the scale filter of mode contain gives an iw x ih source:
\* scale='if(gte(iw/ih,W/H),min(W,iw),-1)':'if(gte(iw/ih,W/H),-1,min(H,ih))'
ContainSize(iw, ih, W, H) ==
    IF AtLeastFrameAspect(iw, ih, W, H)
    THEN [w |-> Min(W, iw), h |-> KeepAspect(Min(W, iw), ih, iw)]
    ELSE [w |-> KeepAspect(Min(H, ih), iw, ih), h |-> Min(H, ih)]

\* the size the scale filter of mode scale-down gives an iw x ih source:
\* scale='if(gte(iw/ih,W/H),min(iw,W),-1)':'if(gte(iw/ih,W/H),-1,min(ih,H))'
ScaleDownSize(iw, ih, W, H) ==
    IF AtLeastFrameAspect(iw, ih, W, H)
    THEN [w |-> Min(iw, W), h |-> KeepAspect(Min(iw, W), ih, iw)]
    ELSE [w |-> KeepAspect(Min(ih, H), iw, ih), h |-> Min(ih, H)]

\* scaling = "cover" unless instructions.scaling is given
ScalingOf(instructions) ==
    IF IsDefined(instructions.scaling) THEN Val(instructions.scaling)
    ELSE DefaultScaling

\* item.scaling || scaling
ItemScaling(item, scaling) ==
    IF FalsyString(item.scaling) THEN scaling ELSE Val(item.scaling)

(***************************************************************************)
(* The filter program.  A label [name i] is a record; [i:v] and [i:a] are  *)
(* the labels "in:v" and "in:a" of input i; '' is NoLabel.  A statement is *)
(* its input labels, its chain of filters and its output label.  A filter  *)
(* is its name, its number (setsar=n, volume=n/100, adelay=n|n, concat n=, *)
(* amix inputs=n, drawtext of text item n) and, for the scaling filter,    *)
(* its expression.                                                         *)
(***************************************************************************)
Label(name, i) == [name |-> name, i |-> i]
NoLabel == Label("", 0)
\* the arguments of a drawtext: enable is << >> or the <<from, to>> of
\* enable='between(t,from,to)'
NoArgs == [fontSize |-> 0, position |-> "", enable |-> << >>]
Filter(name, n) == [name |-> name, n |-> n, expr |-> << >>, args |-> NoArgs]
ScalingFilter(expr) ==
    [name |-> "scaling", n |-> 0, expr |-> expr, args |-> NoArgs]
\* tags are the durations written after the input labels (`${label}:d=...`);
\* no statement of renderJob writes any
Statement(ins, filters, out) ==
    [ins |-> ins, tags |-> << >>, filters |-> filters, out |-> out]

(***************************************************************************)
(* renderJob: the timing pass, the input pass, the text style lookup.      *)
(* A pass state is the locals of renderJob: the error thrown so far (""    *)
(* for none), totalDuration, timelineCursor, and item.timelineStart of     *)
(* each item walked, the filter program under construction, the inputs     *)
(* registered on the command, the -map output options, and whether         *)
(* command.run() was called; and styles, the TEXT_STYLES table as the      *)
(* invocation leaves it.                                                   *)
(***************************************************************************)
NoError == ""
ErrEmptyTimeline == "Timeline is empty"
ErrResolution == "Invalid resolution format"
ErrFileNotFound == "File not found"
ErrCutPoints == "Invalid cut points"
ErrTextStyle == "Invalid text style"
ErrSrtTime == "Cannot read properties of undefined (reading 'split')"

PassInit(n) ==
    [error |-> NoError, totalDuration |-> 0, timelineCursor |-> 0,
     timelineStart |-> [i \in 1..n |-> Undefined],
     filterComplex |-> << >>, videoLabels |-> << >>, audioLabels |-> << >>,
     overlayAudioLabels |-> << >>, inputIndex |-> 0, hasAudio |-> FALSE,
     finalVideoLabel |-> NoLabel, inputs |-> << >>, maps |-> << >>,
     started |-> FALSE, styles |-> TEXT_STYLES, probed |-> << >>,
     handlers |-> {}, fullTimeline |-> << >>]

Throw(st, msg) == [st EXCEPT !.error = msg]

\* ffmpeg.ffprobe(filePath, ...): one more call, on the file of the item
Ffprobe(st, item) == [st EXCEPT !.probed = Append(@, Val(item.filename))]

\* One iteration of the first loop over fullTimeline.
FirstPassStep(st, item, i, fileMap, probe) ==
    IF st.error # NoError THEN st
    ELSE IF item.type = "video" THEN
        IF ~Mapped(fileMap, item) THEN Throw(st, ErrFileNotFound)
        ELSE LET segmentDuration == VideoSegment(item, probe)
             IN [Ffprobe(st, item) EXCEPT
                    !.timelineStart[i] = Some(st.timelineCursor),
                    !.totalDuration = @ + segmentDuration,
                    !.timelineCursor = @ + segmentDuration]
    ELSE IF item.type = "image" THEN
        LET segmentDuration == ImageSegment(item)
        IN [st EXCEPT !.timelineStart[i] = Some(st.timelineCursor),
                      !.totalDuration = @ + segmentDuration,
                      !.timelineCursor = @ + segmentDuration]
    ELSE IF item.type = "audio" THEN
        IF ~Mapped(fileMap, item) THEN Throw(st, ErrFileNotFound)
        ELSE LET segmentDuration == AudioSegment(item, probe)
                 overlayStart == OverlayStart(item, st.timelineCursor)
             IN IF segmentDuration <= 0
                THEN Throw(Ffprobe(st, item), ErrCutPoints)
                ELSE [Ffprobe(st, item) EXCEPT
                         !.timelineStart[i] = Some(overlayStart),
                         !.totalDuration =
                             Max(@, overlayStart + segmentDuration)]
    ELSE st

RECURSIVE FirstPass(_, _, _, _)
FirstPass(tl, n, fileMap, probe) ==
    IF n = 0 THEN PassInit(Len(tl))
    ELSE FirstPassStep(FirstPass(tl, n - 1, fileMap, probe), tl[n], n,
                       fileMap, probe)

DefaultResolution == <<"1", "2", "8", "0", "x", "7", "2", "0">>
ResolutionOf(instructions) ==
    IF IsDefined(instructions.resolution) THEN Val(instructions.resolution)
    ELSE DefaultResolution

\* item.volume !== undefined ? item.volume : 100
VolumeOf(item) == IF IsDefined(item.volume) THEN Val(item.volume) ELSE 100

\* (item.startTime || 0) * 1000
DelayMs(item) == IF Falsy(item.startTime) THEN 0 ELSE Val(item.startTime)

\* command.input(filePath).inputOptions([...]): ss and t are the -ss and -t
\* options (ss << >> when there is none), loop the -loop 1 of an image
Input(file, ss, t, loop) == [file |-> file, ss |-> ss, t |-> t, loop |-> loop]

\* VideoInput with -t the length of the whole file
VideoInputWholeFile(item, probe) ==
    Input(Val(item.filename), Some(CutStart(item)),
          ProbedDuration(probe, Val(item.filename)), FALSE)

\* the input of a video item: -accurate_seek -ss startTime -t segmentDuration
VideoInput(item, probe) ==
    Input(Val(item.filename), Some(CutStart(item)), VideoSegment(item, probe),
          FALSE)

\* the input of an image item: -framerate 30 -loop 1 -t (item.duration || 5)
ImageInput(item) ==
    Input(Val(item.filename), Undefined, ImageSegment(item), TRUE)

\* the input of an audio item: -accurate_seek -ss startTime -t segmentDuration
AudioInput(item, probe) ==
    Input(Val(item.filename), Some(CutStart(item)), AudioSegment(item, probe),
          FALSE)

\* `[${inputIndex}:v]${scalingFilter},setsar=1[v${inputIndex}]`
ScaleStatement(inputIndex, scalingFilter) ==
    Statement(<<Label("in:v", inputIndex)>>,
              <<ScalingFilter(scalingFilter), Filter("setsar", 1)>>,
              Label("v", inputIndex))

\* `[${inputIndex}:a]volume=${normalizedVolume}[a${inputIndex}]`
VolumeStatement(inputIndex, volume) ==
    Statement(<<Label("in:a", inputIndex)>>, <<Filter("volume", volume)>>,
              Label("a", inputIndex))

\* `[${inputIndex}:a]${delayFilter}${volumeFilter}${delayedLabel}`
OverlayStatement(inputIndex, item, k) ==
    Statement(<<Label("in:a", inputIndex)>>,
              <<IF DelayMs(item) > 0 THEN Filter("adelay", DelayMs(item))
                ELSE Filter("anull", 0)>>
              \o (IF VolumeOf(item) # 100
                  THEN <<Filter("volume", VolumeOf(item))>> ELSE << >>),
              Label("oa", k))

\* One iteration of the second loop over fullTimeline (timelineCursor keeps
\* the value the first loop left).
SecondPassStep(st, item, i, instructions, fileMap, probe) ==
    LET size == ParseResolution(ResolutionOf(instructions))
        scalingFilter ==
            GetScalingFilter(ItemScaling(item, ScalingOf(instructions)),
                             Val(size.width), Val(size.height))
    IN
    IF st.error # NoError THEN st
    ELSE IF scalingFilter.threw THEN Throw(st, ErrNotAFunction)
    ELSE IF item.type = "video" THEN
        IF ~Mapped(fileMap, item) THEN Throw(st, ErrFileNotFound)
        ELSE IF VideoSegment(item, probe) <= 0
        THEN Throw(Ffprobe(st, item), ErrCutPoints)
        ELSE LET audible == /\ VolumeOf(item) > 0
                            /\ HasAudioStream(probe, Val(item.filename))
                 \* hasAudioStream(filePath) is called if (volume > 0)
                 probing == IF VolumeOf(item) > 0
                            THEN Ffprobe(Ffprobe(st, item), item)
                            ELSE Ffprobe(st, item)
             IN [probing EXCEPT
                   !.filterComplex =
                       Append(@, ScaleStatement(st.inputIndex,
                                                scalingFilter.filter))
                       \o (IF audible
                           THEN <<VolumeStatement(st.inputIndex, VolumeOf(item))>>
                           ELSE << >>),
                   !.videoLabels = Append(@, Label("v", st.inputIndex)),
                   !.audioLabels =
                       IF audible THEN Append(@, Label("a", st.inputIndex))
                       ELSE @,
                   !.hasAudio = @ \/ audible,
                   !.inputs = Append(@, VideoInput(item, probe)),
                   !.inputIndex = @ + 1]
    ELSE IF item.type = "image" THEN
        IF ~Mapped(fileMap, item) THEN Throw(st, ErrFileNotFound)
        ELSE [st EXCEPT
                !.filterComplex =
                    Append(@, ScaleStatement(st.inputIndex,
                                             scalingFilter.filter)),
                !.videoLabels = Append(@, Label("v", st.inputIndex)),
                !.inputs = Append(@, ImageInput(item)),
                !.inputIndex = @ + 1]
    ELSE IF item.type = "audio" THEN
        IF ~Mapped(fileMap, item) THEN Throw(st, ErrFileNotFound)
        ELSE LET segmentDuration == AudioSegment(item, probe)
                 overlayStart == OverlayStart(item, st.timelineCursor)
             IN [Ffprobe(st, item) EXCEPT
                   !.timelineStart[i] = Some(overlayStart),
                   !.totalDuration = Max(@, overlayStart + segmentDuration),
                   !.filterComplex =
                       Append(@, OverlayStatement(st.inputIndex, item,
                                                  Len(st.overlayAudioLabels))),
                   !.hasAudio = TRUE,
                   !.overlayAudioLabels =
                       Append(@, Label("oa", Len(st.overlayAudioLabels))),
                   !.inputs = Append(@, AudioInput(item, probe)),
                   !.inputIndex = @ + 1]
    ELSE st

RECURSIVE SecondPass(_, _, _, _, _, _)
SecondPass(st0, tl, n, instructions, fileMap, probe) ==
    IF n = 0 THEN st0
    ELSE SecondPassStep(SecondPass(st0, tl, n - 1, instructions, fileMap, probe),
                        tl[n], n, instructions, fileMap, probe)

\* ReduceVideo with a single label passed on as it is
ReduceVideoPassThrough(st) ==
    IF st.error # NoError THEN st
    ELSE IF Len(st.videoLabels) > 1 THEN
        [st EXCEPT
           !.filterComplex =
               Append(@, Statement(st.videoLabels,
                                   <<Filter("concat:v", Len(st.videoLabels))>>,
                                   Label("concatv", 0))),
           !.finalVideoLabel = Label("concatv", 0)]
    ELSE IF Len(st.videoLabels) = 1 THEN
        [st EXCEPT !.finalVideoLabel = st.videoLabels[1]]
    ELSE st

\* The video reduction: concat of several labels, copy of a single one.
ReduceVideo(st) ==
    IF st.error # NoError THEN st
    ELSE IF Len(st.videoLabels) > 1 THEN
        [st EXCEPT
           !.filterComplex =
               Append(@, Statement(st.videoLabels,
                                   <<Filter("concat:v", Len(st.videoLabels))>>,
                                   Label("concatv", 0))),
           !.finalVideoLabel = Label("concatv", 0)]
    ELSE IF Len(st.videoLabels) = 1 THEN
        [st EXCEPT
           !.filterComplex =
               Append(@, Statement(<<st.videoLabels[1]>>, <<Filter("copy", 0)>>,
                                   Label("concatv", 0))),
           !.finalVideoLabel = Label("concatv", 0)]
    ELSE st

\* textItem.style ? TEXT_STYLES[textItem.style] : TEXT_STYLES.basic; !style
StyleMissing(item) ==
    /\ ~FalsyString(item.style)
    /\ Val(item.style) \notin TextStyleNames

\* `${finalVideoLabel}` at the head of a statement: '' writes no input label
Ins(label) == IF label = NoLabel THEN << >> ELSE <<label>>

\* TextLabel with the same name for every text item
TextLabelShared(k) == Label("txt", 0)

\* `[txt${textItems.indexOf(textItem)}]`
TextLabel(k) == Label("txt", k)

\* textItem.style ? TEXT_STYLES[textItem.style] : TEXT_STYLES.basic
StyleName(item) == IF FalsyString(item.style) THEN "basic" ELSE Val(item.style)

\* if (textItem.fontSize) style.fontSize = textItem.fontSize: style is the
\* preset object of the table itself
Customize(styles, item) ==
    IF Falsy(item.fontSize) THEN styles
    ELSE [styles EXCEPT ![StyleName(item)] = Val(item.fontSize)]

\* generateDrawTextFilter(escapeText(text), style, position || 'middle-center',
\* startTime || 0, duration || 5): the drawtext of the k-th text item
DrawText(k, item, styles) ==
    LET startTime == IF Falsy(item.startTime) THEN 0 ELSE Val(item.startTime)
        duration == IF Falsy(item.duration) THEN DefaultDuration
                    ELSE Val(item.duration)
    IN [name |-> "drawtext", n |-> k, expr |-> << >>,
        args |-> [fontSize |-> styles[StyleName(item)],
                  position |-> IF FalsyString(item.position) THEN "middle-center"
                               ELSE Val(item.position),
                  enable |-> IF startTime > 0 \/ duration > 0
                             THEN <<startTime, startTime + duration>>
                             ELSE << >>]]

\* fullTimeline.filter(item => item.type === "text")
TextItems(tl) == SelectSeq(tl, LAMBDA item : item.type = "text")

\* The first n iterations of the loop over textItems: each one chains a
\* drawtext from finalVideoLabel to [txt k], k counting from 0.
RECURSIVE TextLoop(_, _, _)
TextLoop(st, textItems, n) ==
    IF n = 0 THEN st
    ELSE LET before == TextLoop(st, textItems, n - 1)
         IN IF before.error # NoError THEN before
            ELSE IF StyleMissing(textItems[n]) THEN Throw(before, ErrTextStyle)
            ELSE LET styles == Customize(before.styles, textItems[n])
                 IN [before EXCEPT
                       !.styles = styles,
                       !.filterComplex =
                           Append(@, Statement(Ins(before.finalVideoLabel),
                                               <<DrawText(n - 1, textItems[n],
                                                          styles)>>,
                                               TextLabel(n - 1))),
                       !.finalVideoLabel = TextLabel(n - 1)]

TextPass(st, tl) == TextLoop(st, TextItems(tl), Len(TextItems(tl)))

\* filterComplex.push(`${finalVideoLabel}copy[outv]`)
TerminalCopy(st) ==
    IF st.error # NoError THEN st
    ELSE [st EXCEPT
            !.filterComplex =
                Append(@, Statement(Ins(st.finalVideoLabel), <<Filter("copy", 0)>>,
                                    Label("outv", 0)))]

\* MixInputs without the sequential audio when there are overlays
MixInputsOverlaysOnly(mainAudioLabel, overlayAudioLabels) ==
    IF overlayAudioLabels # << >> THEN overlayAudioLabels ELSE mainAudioLabel

\* mixInputs: mainAudioLabel if there is one, then ...overlayAudioLabels
MixInputs(mainAudioLabel, overlayAudioLabels) ==
    mainAudioLabel \o overlayAudioLabels

\* MixFilter with amix for a single input too
MixFilterAlwaysMix(n) == Filter("amix", n)

\* aresample=async=1 for one input, else
\* amix=inputs=n:duration=longest:dropout_transition=2
MixFilter(n) == IF n = 1 THEN Filter("aresample", 1) ELSE Filter("amix", n)

\* The audio reduction, when hasAudio.
ReduceAudio(st) ==
    IF st.error # NoError \/ ~st.hasAudio THEN st
    ELSE LET concatenated == Len(st.audioLabels) > 1
             mainAudioLabel ==
                 IF Len(st.audioLabels) = 1 THEN <<st.audioLabels[1]>>
                 ELSE IF concatenated THEN <<Label("videocona", 0)>>
                 ELSE << >>
             mixInputs == MixInputs(mainAudioLabel, st.overlayAudioLabels)
             concat ==
                 IF concatenated
                 THEN <<Statement(st.audioLabels,
                                  <<Filter("concat:a", Len(st.audioLabels))>>,
                                  Label("videocona", 0))>>
                 ELSE << >>
             mix == Statement(mixInputs, <<MixFilter(Len(mixInputs))>>,
                              Label("outa", 0))
         IN [st EXCEPT !.filterComplex = (@ \o concat) \o <<mix>>]

\* command.outputOptions: -map [outv], and -map [outa] if (hasAudio)
OutputOptions(st) ==
    IF st.error # NoError THEN st
    ELSE [st EXCEPT !.maps = <<Label("outv", 0)>>
                              \o (IF st.hasAudio THEN <<Label("outa", 0)>>
                                  ELSE << >>)]

\* command.on('start', ...), command.on('stderr', ...) and
\* command.on('progress', ...)
Handlers(st) ==
    IF st.error # NoError THEN st
    ELSE [st EXCEPT !.handlers = @ \cup {"start", "stderr", "progress"}]

\* Run reached on the paths that threw as well
RunRegardless(st) ==
    [st EXCEPT !.handlers = @ \cup {"end", "error"}, !.started = TRUE]

\* command.on('end', ...), command.on('error', ...) and command.run(), the
\* last statements of renderJob
Run(st) ==
    IF st.error # NoError THEN st
    ELSE [st EXCEPT !.handlers = @ \cup {"end", "error"}, !.started = TRUE]

\* a subtitle parseSRT returned, as a timeline item
SubtitleItem(subtitle) ==
    [Item("text", Undefined, Some(subtitle.text), Some(subtitle.style), Undefined,
          subtitle.duration, subtitle.startTime)
        EXCEPT !.position = Some(subtitle.position)]

\* if (subtitles) fullTimeline = [...timeline, ...parseSRT(subtitles)]
FullTimeline(instructions) ==
    IF instructions.subtitles \in {Undefined, Some(<< >>)}
    THEN [threw |-> FALSE, timeline |-> instructions.timeline]
    ELSE LET parsed == ParseSRT(Val(instructions.subtitles))
         IN [threw |-> parsed.threw,
             timeline |->
                instructions.timeline
                \o [k \in 1..Len(parsed.subtitles) |->
                       SubtitleItem(parsed.subtitles[k])]]

\* The body of renderJob, on the TEXT_STYLES table as earlier invocations
\* left it: the pass state it ends with.
RenderJobWith(instructions, fileMap, probe, styles) ==
    LET full == FullTimeline(instructions)
        tl == full.timeline
        st0 == [FirstPass(tl, Len(tl), fileMap, probe) EXCEPT
                   !.styles = styles, !.fullTimeline = tl]
        \* let fullTimeline = [...timeline], before the subtitles are parsed
        early == [PassInit(Len(instructions.timeline)) EXCEPT
                     !.fullTimeline = instructions.timeline]
    IN IF Len(instructions.timeline) = 0
       THEN Throw(PassInit(0), ErrEmptyTimeline)
       ELSE IF ResolutionInvalid(ResolutionOf(instructions))
       THEN Throw(early, ErrResolution)
       ELSE IF full.threw
       THEN Throw(early, ErrSrtTime)
       ELSE Run(Handlers(OutputOptions(ReduceAudio(TerminalCopy(TextPass(
                ReduceVideo(SecondPass(st0, tl, Len(tl), instructions, fileMap,
                                       probe)),
                tl))))))

\* The body of renderJob up to command.run(): the pass state it ends with.
\* error = NoError means command.run() is reached and the process starts.
RenderJob(instructions, fileMap, probe) ==
    RenderJobWith(instructions, fileMap, probe, TEXT_STYLES)

\* renderJob reaches an await (an ffprobe of a video or audio item) before
\* it throws or returns.
ReachesAwait(instructions, fileMap) ==
    LET tl == instructions.timeline
    IN /\ Len(tl) > 0
       /\ ~ResolutionInvalid(ResolutionOf(instructions))
       /\ \E i \in 1..Len(tl) :
             /\ tl[i].type \in {"video", "audio"}
             /\ Mapped(fileMap, tl[i])
             /\ \A h \in 1..(i - 1) : tl[h].type \notin {"video", "audio"}

(***************************************************************************)
(* The progress handler of renderJob.                                      *)
(***************************************************************************)
\* RoundRatio with the fraction dropped
RoundRatioDown(num, den) == num \div den

\* Math.round(x) for x = num / den, den > 0: floor(x + 1/2)
RoundRatio(num, den) == (2 * num + den) \div (2 * den)

\* (currentTime / totalDuration) * 100 is NaN exactly for 0 / 0
PercentIsNaN(currentTime, totalDuration) == currentTime = 0 /\ totalDuration = 0

\* Math.min(Math.round((currentTime / totalDuration) * 100), 100), where it
\* is a number; currentTime is in whole seconds, totalDuration in ms.
Percent(currentTime, totalDuration) ==
    IF totalDuration = 0 THEN 100
    ELSE IF totalDuration > 0
    THEN Min(RoundRatio(currentTime * MsPerSecond * 100, totalDuration), 100)
    ELSE Min(RoundRatio(-(currentTime * MsPerSecond * 100), -totalDuration), 100)

\* EmitsStatus with "has changed" read as !==
EmitsStatusOnChange(currentTime, totalDuration, lastProgress) ==
    /\ ~PercentIsNaN(currentTime, totalDuration)
    /\ Percent(currentTime, totalDuration) # lastProgress

\* if (percent > lastProgress)
EmitsStatus(currentTime, totalDuration, lastProgress) ==
    /\ ~PercentIsNaN(currentTime, totalDuration)
    /\ Percent(currentTime, totalDuration) > lastProgress

(***************************************************************************)
(* The server: POST /render and the jobs Map.                              *)
(***************************************************************************)
JobIds == 1..MaxJobs
Files == {"v.mp4", "p.png", "a.mp3", "gone.mp4"}
InitialUploads == {"v.mp4", "p.png", "a.mp3"}

NoJob == [status |-> "absent", progress |-> 0, command |-> Undefined,
          promise |-> Undefined, outputPath |-> Undefined, error |-> Undefined]

NoInstructions ==
    [resolution |-> Undefined, timeline |-> << >>, scaling |-> Undefined,
     subtitles |-> Undefined]

NoRun == [pc |-> "none", instructions |-> NoInstructions, fileMap |-> {},
          totalDuration |-> 0, lastProgress |-> 0, markerSeen |-> FALSE,
          emitted |-> 0, error |-> NoError]

\* path.join(outputDir, `${uuidv4()}.${extension}`): one fresh path per call
OutputPath(j) == <<"outputs", j>>

\* The value of property name of a JavaScript object given by its own
\* properties; a property the object does not have reads as undefined.
Prop(obj, name) == IF name \in DOMAIN obj THEN Some(obj[name]) ELSE Undefined

\* What the call renderJob({...}) evaluates to in POST /render.  renderJob is
\* declared async, so the call never throws and its value is a Promise
\* object; the object {command, promise} is what that Promise resolves with.
RenderJobCall(j) ==
    [threw |-> FALSE, value |-> [constructor |-> "Promise"]]

\* The loop of POST /render over the timeline: the first item that fails
\* decides the response; "" when every item passes.
RECURSIVE ItemError(_, _, _)
ItemError(tl, i, present) ==
    IF i > Len(tl) THEN ""
    ELSE IF tl[i].type = "text" THEN
        IF FalsyString(tl[i].text)
        THEN "Text items must have a 'text' property"
        ELSE ItemError(tl, i + 1, present)
    ELSE IF FalsyString(tl[i].filename)
    THEN "Non-text items must have a 'filename' property"
    ELSE IF Val(tl[i].filename) \notin present THEN "File not found"
    ELSE ItemError(tl, i + 1, present)

\* ValidationError without the check of an empty timeline
ValidationErrorItemsOnly(body, present) ==
    ItemError(body.timeline, 1, present)

\* The validation of POST /render: the 400 error, "" when the body passes.
ValidationError(body, present) ==
    IF Len(body.timeline) = 0 THEN "Invalid timeline"
    ELSE ItemError(body.timeline, 1, present)

\* fileMap after the loop: the file names of the non-text items
FileMapOf(body) ==
    {Val(body.timeline[i].filename) :
        i \in {h \in 1..Len(body.timeline) : body.timeline[h].type # "text"}}

NoProbe == [duration |-> [f \in Files |-> Undefined], audio |-> {}]

\* The state of a renderJob invocation when it has run to pass state st.
\* "rejected": the Promise the call returned is rejected with st.error;
\* POST /render attaches no handler to that Promise.
RunAfter(r, st) ==
    [r EXCEPT !.pc = IF st.error = NoError THEN "running" ELSE "rejected",
              !.totalDuration = st.totalDuration,
              !.error = st.error]

\* The renderJob invocation as POST /render leaves it: run to its first
\* await, or to its end when it reaches none.
RunStarted(body, fileMap) ==
    LET r == [NoRun EXCEPT !.instructions = body, !.fileMap = fileMap]
    IN IF ReachesAwait(body, fileMap) THEN [r EXCEPT !.pc = "pending"]
       ELSE RunAfter(r, RenderJob(body, fileMap, NoProbe))

FreeIds == {j \in JobIds : jobs[j] = NoJob}

\* app.post("/render", ...)
RenderRequest(body) ==
    /\ FreeIds # {}
    /\ lastReq' = body
    /\ LET jobId == CHOOSE j \in FreeIds : \A h \in FreeIds : j <= h
           verr == ValidationError(body, uploads)
           fileMap == FileMapOf(body)
           renderResult == RenderJobCall(jobId)
           command == Prop(renderResult.value, "command")
           promise == Prop(renderResult.value, "promise")
       IN IF verr # ""
          THEN /\ lastResp' = [code |-> 400, error |-> verr, jobId |-> 0]
               /\ UNCHANGED <<jobs, run>>
          ELSE IF renderResult.threw
          THEN /\ lastResp' = [code |-> 500,
                               error |-> "Failed to initialize render job",
                               jobId |-> 0]
               /\ UNCHANGED <<jobs, run>>
          ELSE /\ jobs' = [jobs EXCEPT ![jobId] =
                              [NoJob EXCEPT !.status = "processing",
                                            !.progress = 0,
                                            !.command = command,
                                            !.promise = promise]]
               /\ run' = [run EXCEPT ![jobId] = RunStarted(body, fileMap)]
               /\ lastResp' = [code |-> 200, error |-> "", jobId |-> jobId]
    /\ UNCHANGED <<uploads, cIn, cOut>>

\* renderJob resumes after its ffprobe calls and runs to its end; probe is
\* what the probes answer.
Compile(j, probe) ==
    /\ run[j].pc = "pending"
    /\ run' = [run EXCEPT ![j] =
                  RunAfter(@, RenderJob(@.instructions, @.fileMap, probe))]
    /\ UNCHANGED <<uploads, jobs, lastReq, lastResp, cIn, cOut>>

\* command.on("status", ...) of POST /render, registered if (command)
OnStatus(job, progress) ==
    IF IsDefined(job.command)
    THEN [job EXCEPT !.progress = progress,
                     !.status = IF progress >= 100 THEN "finished"
                                ELSE "processing"]
    ELSE job

\* promise.then(...) of POST /render, registered if (promise)
OnResolved(job, outputPath) ==
    IF IsDefined(job.promise)
    THEN [job EXCEPT !.status = "finished", !.outputPath = Some(outputPath)]
    ELSE job

\* promise.catch(...) of POST /render, registered if (promise)
OnRejected(job, message) ==
    IF IsDefined(job.promise)
    THEN [job EXCEPT !.status = "failed", !.error = Some(message)]
    ELSE job

\* command.on('progress', ...) of renderJob, for a timemark of currentTime
\* seconds, with the 'status' listeners it calls.
Progress(j, currentTime) ==
    /\ run[j].pc = "running"
    /\ LET emits == EmitsStatus(currentTime, run[j].totalDuration,
                                run[j].lastProgress)
           percent == Percent(currentTime, run[j].totalDuration)
       IN /\ run' = [run EXCEPT ![j].markerSeen = TRUE,
                                ![j].emitted = IF emits THEN @ + 1 ELSE @,
                                ![j].lastProgress = IF emits THEN percent ELSE @]
          /\ jobs' = [jobs EXCEPT ![j] = IF emits THEN OnStatus(@, percent) ELSE @]
    /\ UNCHANGED <<uploads, lastReq, lastResp, cIn, cOut>>

\* command.on('end', ...): resolve(outputPath), with the handlers on promise
End(j) ==
    /\ run[j].pc = "running"
    /\ run' = [run EXCEPT ![j].pc = "ended"]
    /\ jobs' = [jobs EXCEPT ![j] = OnResolved(@, OutputPath(j))]
    /\ UNCHANGED <<uploads, lastReq, lastResp, cIn, cOut>>

EncodeFailure == "ffmpeg exited with code 1"

\* command.on('error', ...): reject(err), with the handlers on promise
Error(j) ==
    /\ run[j].pc = "running"
    /\ run' = [run EXCEPT ![j].pc = "errored", ![j].error = EncodeFailure]
    /\ jobs' = [jobs EXCEPT ![j] = OnRejected(@, EncodeFailure)]
    /\ UNCHANGED <<uploads, lastReq, lastResp, cIn, cOut>>

(***************************************************************************)
(* The requests and probe answers the model draws from.                    *)
(***************************************************************************)
VideoItem(filename, cut) ==
    Item("video", Some(filename), Undefined, Undefined, cut, Undefined, Undefined)
ImageItem(filename, duration) ==
    Item("image", Some(filename), Undefined, Undefined, Undefined, duration, Undefined)
AudioItem(filename, cut, duration, startTime) ==
    Item("audio", Some(filename), Undefined, Undefined, cut, duration, startTime)
TextItem(text, style) ==
    Item("text", Undefined, text, style, Undefined, Undefined, Undefined)

ServerItems ==
    { VideoItem("v.mp4", Undefined),
      VideoItem("v.mp4", <<2000, 1000>>),
      VideoItem("gone.mp4", Undefined),
      TextItem(Some("hi"), Undefined),
      TextItem(Some("hi"), Some("neon")),
      TextItem(Undefined, Undefined),
      ImageItem("p.png", Some(-1000)) }

ServerResolutions == { Some(<<"2", "x", "1">>), Some(<<"2">>) }

ServerBodies ==
    [resolution : ServerResolutions,
     timeline : {<< >>} \cup {<<i>> : i \in ServerItems},
     scaling : {Undefined}, subtitles : {Undefined}]

\* probe answers: failed, or a duration of 2 s
ProbeAnswers ==
    [duration : [Files -> {Undefined, Some(2000)}], audio : {{}, {"v.mp4"}}]

\* probe answers for the one file the server's jobs probe
ServerProbeAnswers ==
    {p \in ProbeAnswers : \A f \in Files \ {"v.mp4"} : p.duration[f] = Undefined}

Init ==
    /\ uploads = InitialUploads
    /\ jobs = [j \in JobIds |-> NoJob]
    /\ run = [j \in JobIds |-> NoRun]
    /\ lastReq = NoInstructions
    /\ lastResp = [code |-> 0, error |-> "", jobId |-> 0]
    /\ cIn = [instructions |-> NoInstructions, fileMap |-> {}, probe |-> NoProbe]
    /\ cOut = Undefined

Next ==
    \/ \E body \in ServerBodies : RenderRequest(body)
    \/ \E j \in JobIds, probe \in ServerProbeAnswers : Compile(j, probe)
    \/ \E j \in JobIds, t \in 0..MaxElapsed : Progress(j, t)
    \/ \E j \in JobIds : End(j)
    \/ \E j \in JobIds : Error(j)

Spec == Init /\ [][Next]_vars

(***************************************************************************)
(* The server with DELETE /uploads.                                        *)
(***************************************************************************)
\* job.fileMap: the object POST /render stores has no such property
JobFileMap(job) == Undefined

\* the loop over jobs.entries(): the id of the first processing job that
\* ends it, with what ends it (Object.values(undefined) throws a TypeError)
DeleteCheck(filename) ==
    LET processing == {j \in JobIds : jobs[j].status = "processing"}
        stops == {j \in processing :
                     \/ JobFileMap(jobs[j]) = Undefined
                     \/ filename \in Val(JobFileMap(jobs[j]))}
    IN IF stops = {} THEN [jobId |-> 0, threw |-> FALSE]
       ELSE LET j == CHOOSE j \in stops : \A h \in stops : j <= h
            IN [jobId |-> j, threw |-> JobFileMap(jobs[j]) = Undefined]

\* app.delete('/uploads', ...)
DeleteUpload(filename) ==
    /\ LET check == DeleteCheck(filename)
       IN IF filename = ""
          THEN /\ lastResp' = [code |-> 400,
                               error |-> "Filename is required in request body",
                               jobId |-> 0]
               /\ UNCHANGED uploads
          ELSE IF filename \notin uploads
          THEN /\ lastResp' = [code |-> 404, error |-> "File not found",
                               jobId |-> 0]
               /\ UNCHANGED uploads
          ELSE IF check.threw
          THEN /\ lastResp' = [code |-> 500, error |-> "Failed to delete file",
                               jobId |-> 0]
               /\ UNCHANGED uploads
          ELSE IF check.jobId # 0
          THEN /\ lastResp' = [code |-> 409,
                               error |-> "File is currently being used in job",
                               jobId |-> check.jobId]
               /\ UNCHANGED uploads
          ELSE /\ lastResp' = [code |-> 200, error |-> "", jobId |-> 0]
               /\ uploads' = uploads \ {filename}
    /\ UNCHANGED <<jobs, run, lastReq, cIn, cOut>>

DeleteNames == Files \cup {""}

NextFiles ==
    \/ Next
    \/ \E filename \in DeleteNames : DeleteUpload(filename)

SpecFiles == Init /\ [][NextFiles]_vars

(***************************************************************************)
(* renderJob taken alone: one call on a timeline, a file map and probe     *)
(* answers drawn from bounded sets.                                        *)
(***************************************************************************)
CompileItems ==
    { VideoItem("v.mp4", <<0, 2000>>),
      VideoItem("v.mp4", Undefined),
      ImageItem("p.png", Some(3000)),
      ImageItem("p.png", Undefined),
      AudioItem("a.mp3", Undefined, Some(4000), Some(0)),
      AudioItem("a.mp3", Undefined, Undefined, Undefined),
      [AudioItem("a.mp3", Undefined, Some(4000), Some(2500))
          EXCEPT !.volume = Some(50)],
      [VideoItem("v.mp4", <<0, 2000>>) EXCEPT !.volume = Some(0)],
      TextItem(Some("hi"), Some("subtitle")) }

RECURSIVE SeqsUpTo(_, _)
SeqsUpTo(S, n) ==
    IF n = 0 THEN {<< >>}
    ELSE LET shorter == SeqsUpTo(S, n - 1)
         IN shorter \cup {Append(q, x) : q \in shorter, x \in S}

\* the items of the longest timelines: one of each type, and a muted video
LongItems ==
    { VideoItem("v.mp4", Undefined),
      [VideoItem("v.mp4", <<0, 2000>>) EXCEPT !.volume = Some(0)],
      ImageItem("p.png", Some(3000)),
      [AudioItem("a.mp3", Undefined, Some(4000), Some(2500))
          EXCEPT !.volume = Some(50)],
      TextItem(Some("hi"), Some("subtitle")) }

\* every timeline of up to MaxItems - 1 items, and the timelines of MaxItems
\* of the LongItems
CompileTimelines ==
    (SeqsUpTo(CompileItems, MaxItems - 1) \ {<< >>})
    \cup {tl \in SeqsUpTo(LongItems, MaxItems) : Len(tl) = MaxItems}

\* an SRT text of one block: "Hi" from 1 s to 4 s
ExampleSubtitles ==
    <<"1", "\n", "0", "0", ":", "0", "0", ":", "0", "1", ",", "0", "0", "0",
      " ", "-", "-", ">", " ", "0", "0", ":", "0", "0", ":", "0", "4", ",",
      "0", "0", "0", "\n", "H", "i">>

\* probe answers for the files the compile timelines name
CompileProbeAnswers ==
    {p \in ProbeAnswers :
        \A f \in Files \ {"v.mp4", "a.mp3"} : p.duration[f] = Undefined}

\* timelines alone, and the timelines one item shorter with subtitles
CompileInputs ==
    [instructions : [resolution : {Undefined}, timeline : CompileTimelines,
                     scaling : {Undefined}, subtitles : {Undefined}],
     fileMap : {InitialUploads},
     probe : CompileProbeAnswers]
    \cup
    [instructions : [resolution : {Undefined},
                     timeline : SeqsUpTo(CompileItems, MaxItems - 1) \ {<< >>},
                     scaling : {Undefined},
                     subtitles : {Some(ExampleSubtitles)}],
     fileMap : {InitialUploads},
     probe : CompileProbeAnswers]

InitCompile ==
    /\ uploads = InitialUploads
    /\ jobs = [j \in JobIds |-> NoJob]
    /\ run = [j \in JobIds |-> NoRun]
    /\ lastReq = NoInstructions
    /\ lastResp = [code |-> 0, error |-> "", jobId |-> 0]
    /\ cIn \in CompileInputs
    /\ cOut = Undefined

\* the call renderJob(cIn), run to its end
ResolveAlone ==
    /\ cOut = Undefined
    /\ cOut' = Some(RenderJob(cIn.instructions, cIn.fileMap, cIn.probe))
    /\ UNCHANGED <<uploads, jobs, run, lastReq, lastResp, cIn>>

NextCompile == ResolveAlone

SpecCompile == InitCompile /\ [][NextCompile]_vars

(***************************************************************************)
(* getScalingFilter alone: a mode, a frame and a source; cOut is the       *)
(* filter built and the sizes the contain and scale-down filters give.     *)
(***************************************************************************)
ScaleModes == ScalingModeNames \cup {"", "stretch", "constructor"}
FrameSides == {2, 3}

ScaleInputs ==
    [mode : ScaleModes, width : FrameSides, height : FrameSides,
     iw : 1..MaxSide, ih : 1..MaxSide]

InitScale ==
    /\ uploads = InitialUploads
    /\ jobs = [j \in JobIds |-> NoJob]
    /\ run = [j \in JobIds |-> NoRun]
    /\ lastReq = NoInstructions
    /\ lastResp = [code |-> 0, error |-> "", jobId |-> 0]
    /\ cIn \in ScaleInputs
    /\ cOut = Undefined

BuildAlone ==
    /\ cOut = Undefined
    /\ cOut' = Some([built |-> GetScalingFilter(cIn.mode, cIn.width, cIn.height),
                     contain |-> ContainSize(cIn.iw, cIn.ih, cIn.width, cIn.height),
                     scaleDown |-> ScaleDownSize(cIn.iw, cIn.ih, cIn.width,
                                                 cIn.height)])
    /\ UNCHANGED <<uploads, jobs, run, lastReq, lastResp, cIn>>

NextScale == BuildAlone

SpecScale == InitScale /\ [][NextScale]_vars

(***************************************************************************)
(* parseSRT alone: an SRT text written from a list of blocks, with its     *)
(* line ends as newlines or as the two characters \n.                      *)
(***************************************************************************)
Chars(n) == <<ToString(n)>>
TwoDigits(n) == <<ToString(n \div 10), ToString(n % 10)>>
ThreeDigits(n) ==
    <<ToString(n \div 100), ToString((n \div 10) % 10), ToString(n % 10)>>

Clock(hh, mm, ss, mmm) == [hh |-> hh, mm |-> mm, ss |-> ss, mmm |-> mmm]

\* HH:MM:SS,mmm
Timestamp(c) ==
    TwoDigits(c.hh) \o <<":">> \o TwoDigits(c.mm) \o <<":">> \o TwoDigits(c.ss)
    \o <<",">> \o ThreeDigits(c.mmm)

\* a block: its counter line, its timestamp line unless it has one line only,
\* and its text lines
SrtBlock(index, lineCount, start, end, text) ==
    [index |-> index, lineCount |-> lineCount, start |-> start, end |-> end,
     text |-> text]

BlockLines(b) ==
    IF b.lineCount = 1 THEN <<Chars(b.index)>>
    ELSE <<Chars(b.index),
           Timestamp(b.start) \o <<" ", "-", "-", ">", " ">> \o Timestamp(b.end)>>
         \o b.text

SrtBlocks ==
    { SrtBlock(1, 3, Clock(0, 0, 1, 0), Clock(0, 0, 4, 0), << <<"H", "i">> >>),
      SrtBlock(2, 3, Clock(0, 0, 4, 0), Clock(0, 0, 8, 0),
               << <<"B", "y", "e">> >>),
      SrtBlock(3, 4, Clock(1, 2, 3, 500), Clock(1, 2, 5, 250),
               << <<"a", " ", "b">>, <<"c">> >>),
      SrtBlock(4, 2, Clock(0, 0, 9, 0), Clock(0, 0, 10, 0), << >>),
      SrtBlock(5, 1, Clock(0, 0, 0, 0), Clock(0, 0, 0, 0), << >>) }

SrtInputs == [blocks : SeqsUpTo(SrtBlocks, MaxBlocks), escaped : BOOLEAN]

\* the SRT text of an input: blocks one blank line apart
SrtText(in) ==
    LET lineEnd == IF in.escaped THEN <<"\\", "n">> ELSE <<"\n">>
    IN Join([k \in 1..Len(in.blocks) |-> Join(BlockLines(in.blocks[k]), lineEnd)],
            lineEnd \o lineEnd)

InitSrt ==
    /\ uploads = InitialUploads
    /\ jobs = [j \in JobIds |-> NoJob]
    /\ run = [j \in JobIds |-> NoRun]
    /\ lastReq = NoInstructions
    /\ lastResp = [code |-> 0, error |-> "", jobId |-> 0]
    /\ cIn \in SrtInputs
    /\ cOut = Undefined

ParseAlone ==
    /\ cOut = Undefined
    /\ cOut' = Some(ParseSRT(SrtText(cIn)))
    /\ UNCHANGED <<uploads, jobs, run, lastReq, lastResp, cIn>>

NextSrt == ParseAlone

SpecSrt == InitSrt /\ [][NextSrt]_vars

(***************************************************************************)
(* The progress handler alone: a positive totalDuration and a series of    *)
(* timemarks.  cOut is what the handler did with the last timemark:        *)
(* lastProgress before and after it, whether 'status' was emitted, and the *)
(* progress emitted.                                                       *)
(***************************************************************************)
HalfSecond == 500
TranslateInputs == [totalDuration : {k * HalfSecond : k \in 1..MaxHalfSeconds}]

InitTranslate ==
    /\ uploads = InitialUploads
    /\ jobs = [j \in JobIds |-> NoJob]
    /\ run = [j \in JobIds |-> NoRun]
    /\ lastReq = NoInstructions
    /\ lastResp = [code |-> 0, error |-> "", jobId |-> 0]
    /\ cIn \in TranslateInputs
    /\ cOut = Undefined

\* command.on('progress', ...) for a timemark of currentTime seconds
Timemark(currentTime) ==
    /\ LET before == IF IsDefined(cOut) THEN Val(cOut).lastProgress ELSE 0
           emits == EmitsStatus(currentTime, cIn.totalDuration, before)
           percent == Percent(currentTime, cIn.totalDuration)
       IN cOut' = Some([marker |-> currentTime, before |-> before,
                        emitted |-> emits,
                        progress |-> IF emits THEN percent ELSE 0,
                        lastProgress |-> IF emits THEN percent ELSE before])
    /\ UNCHANGED <<uploads, jobs, run, lastReq, lastResp, cIn>>

NextTranslate == \E currentTime \in 0..MaxElapsed : Timemark(currentTime)

SpecTranslate == InitTranslate /\ [][NextTranslate]_vars

(***************************************************************************)
(* renderJob alone, on instructions it accepts and on instructions it      *)
(* rejects at each of its throw statements.                                *)
(***************************************************************************)
StartItems ==
    { ImageItem("p.png", Some(3000)),
      VideoItem("v.mp4", Undefined),
      VideoItem("v.mp4", <<2000, 1000>>),
      VideoItem("gone.mp4", Undefined),
      TextItem(Some("hi"), Some("neon")),
      TextItem(Some("hi"), Some("subtitle")) }

StartInputs ==
    [instructions : [resolution : {Undefined, Some(<<"2">>)},
                     timeline : SeqsUpTo(StartItems, MaxItems - 1),
                     scaling : {Undefined}, subtitles : {Undefined}],
     fileMap : {InitialUploads},
     probe : {p \in CompileProbeAnswers :
                 p.duration["a.mp3"] = Undefined /\ p.audio = {"v.mp4"}}]

InitStart ==
    /\ uploads = InitialUploads
    /\ jobs = [j \in JobIds |-> NoJob]
    /\ run = [j \in JobIds |-> NoRun]
    /\ lastReq = NoInstructions
    /\ lastResp = [code |-> 0, error |-> "", jobId |-> 0]
    /\ cIn \in StartInputs
    /\ cOut = Undefined

SpecStart == InitStart /\ [][NextCompile]_vars

(***************************************************************************)
(* A series of renderJob invocations in one process: they share the        *)
(* TEXT_STYLES table.  cOut is the table as the last invocation left it,   *)
(* with that invocation's timeline and filter program.                     *)
(***************************************************************************)
StyledTexts ==
    {[TextItem(Some("hi"), style) EXCEPT !.fontSize = fontSize] :
        style \in {Undefined, Some("subtitle")},
        fontSize \in {Undefined, Some(30), Some(100)}}

\* an image and up to MaxItems - 1 text items over it
StyledTimelines ==
    {<<ImageItem("p.png", Some(3000))>> \o texts :
        texts \in SeqsUpTo(StyledTexts, MaxItems - 1) \ {<< >>}}

InitStyles ==
    /\ uploads = InitialUploads
    /\ jobs = [j \in JobIds |-> NoJob]
    /\ run = [j \in JobIds |-> NoRun]
    /\ lastReq = NoInstructions
    /\ lastResp = [code |-> 0, error |-> "", jobId |-> 0]
    /\ cIn = [instructions |-> NoInstructions, fileMap |-> InitialUploads,
              probe |-> NoProbe]
    /\ cOut = Undefined

\* one more renderJob({instructions: {timeline}, ...}), run to its end
RenderNext(timeline) ==
    /\ LET styles == IF IsDefined(cOut) THEN Val(cOut).styles ELSE TEXT_STYLES
           st == RenderJobWith([cIn.instructions EXCEPT !.timeline = timeline],
                               cIn.fileMap, cIn.probe, styles)
       IN cOut' = Some([styles |-> st.styles, timeline |-> timeline,
                        filterComplex |-> st.filterComplex])
    /\ UNCHANGED <<uploads, jobs, run, lastReq, lastResp, cIn>>

NextStyles == \E timeline \in StyledTimelines : RenderNext(timeline)

SpecStyles == InitStyles /\ [][NextStyles]_vars

(***************************************************************************)
(* Properties.                                                             *)
(***************************************************************************)
Created(j) == jobs[j] # NoJob
ProcessStarted(j) == run[j].pc \in {"running", "ended", "errored"}

\* C2: a job whose encoding process ended with the success signal has status
\* finished and its outputPath is the destination path of that invocation.
C2_SuccessFinishesJob ==
    \A j \in JobIds :
        run[j].pc = "ended" =>
            /\ jobs[j].status = "finished"
            /\ jobs[j].outputPath = Some(OutputPath(j))

\* C3: a job whose encoding process ended with the failure signal has status
\* failed, its error is the failure message, and its progress is the last
\* value the translator emitted.
C3_FailureFailsJob ==
    \A j \in JobIds :
        run[j].pc = "errored" =>
            /\ jobs[j].status = "failed"
            /\ jobs[j].error = Some(run[j].error)
            /\ jobs[j].progress = run[j].lastProgress

\* C4: when renderJob fails on an unknown text style after the request was
\* accepted, the job reports failed with a non-null error.
C4_GraphErrorRecordedOnJob ==
    \A j \in JobIds :
        (Created(j) /\ run[j].pc = "rejected" /\ run[j].error = ErrTextStyle) =>
            /\ jobs[j].status = "failed"
            /\ IsDefined(jobs[j].error)

\* A body whose resolution is not widthxheight, or with a video item whose
\* cut has end <= start.
FailsRenderValidation(body) ==
    \/ ResolutionInvalid(ResolutionOf(body))
    \/ \E i \in 1..Len(body.timeline) :
          /\ body.timeline[i].type = "video"
          /\ IsDefined(body.timeline[i].cut)
          /\ body.timeline[i].cut[2] <= body.timeline[i].cut[1]

\* C5: a request with a malformed resolution or a video cut with end <= start
\* never creates a job and never starts a process.
C5_InvalidRequestCreatesNoJob ==
    [][\A j \in JobIds :
          (~Created(j) /\ jobs'[j] # NoJob) => ~FailsRenderValidation(lastReq')]_vars

\* A body with an empty timeline, or with a non-text item whose file is not
\* among the uploaded files.
Unresolvable(body, present) ==
    \/ Len(body.timeline) = 0
    \/ \E i \in 1..Len(body.timeline) :
          /\ body.timeline[i].type # "text"
          /\ \/ FalsyString(body.timeline[i].filename)
             \/ Val(body.timeline[i].filename) \notin present

\* C6: a request with an empty timeline or an unresolvable asset is answered
\* 400 and leaves the registry and the renderJob invocations as they were.
C6_UnresolvableRejected ==
    [][(/\ Unresolvable(lastReq', uploads)
        /\ (lastReq' # lastReq \/ lastResp' # lastResp \/ jobs' # jobs))
         => (lastResp'.code = 400 /\ jobs' = jobs /\ run' = run)]_vars

C6_Witness ==
    /\ lastResp.code = 400
    /\ Unresolvable(lastReq, uploads)
    /\ Len(lastReq.timeline) > 0
    /\ \E j \in JobIds : Created(j)

\* C7: at most ConcurrencyLimit jobs are processing, and at most that many
\* encoding processes run, at any time.
C7_AdmissionBound ==
    /\ Cardinality({j \in JobIds : jobs[j].status = "processing"}) <= ConcurrencyLimit
    /\ Cardinality({j \in JobIds : run[j].pc = "running"}) <= ConcurrencyLimit

\* C8: the values the translator emits, and the progress field of every job,
\* lie in 0..100 and never decrease.
C8_ProgressMonotoneInRange ==
    /\ [](\A j \in JobIds : /\ run[j].lastProgress \in 0..100
                            /\ jobs[j].progress \in 0..100)
    /\ [][\A j \in JobIds : /\ run'[j].lastProgress >= run[j].lastProgress
                            /\ jobs'[j].progress >= jobs[j].progress]_vars

\* the translator of a running job has emitted twice, the second value
\* below 100
C8_Witness ==
    \E j \in JobIds :
        /\ run[j].pc = "running"
        /\ run[j].emitted >= 2
        /\ run[j].lastProgress < 100

\* C9: with totalDuration <= 0, once any marker has arrived the translator
\* has emitted 100.
C9_DegenerateIsComplete ==
    \A j \in JobIds :
        (ProcessStarted(j) /\ run[j].totalDuration <= 0
            /\ run[j].markerSeen) => run[j].lastProgress = 100

\* The cursor walk of the timeline: video and image items advance the cursor
\* and set total = max(total, cursor); audio items set
\* total = max(total, start + duration), start being startTime or the cursor.
RECURSIVE Walk(_, _, _)
Walk(tl, n, probe) ==
    IF n = 0 THEN [cursor |-> 0, total |-> 0]
    ELSE LET w == Walk(tl, n - 1, probe)
             item == tl[n]
         IN IF item.type \in {"video", "image"} THEN
                LET d == IF item.type = "video" THEN VideoSegment(item, probe)
                         ELSE ImageSegment(item)
                IN [cursor |-> w.cursor + d, total |-> Max(w.total, w.cursor + d)]
            ELSE IF item.type = "audio" THEN
                [w EXCEPT !.total =
                    Max(@, OverlayStart(item, w.cursor) + AudioSegment(item, probe))]
            ELSE w

\* C10: the totalDuration renderJob ends with is the total of the cursor walk.
C10_TotalIsWalk ==
    (IsDefined(cOut) /\ Val(cOut).error = NoError) =>
        Val(cOut).totalDuration =
            Walk(cIn.instructions.timeline, Len(cIn.instructions.timeline),
                 cIn.probe).total

AllOfType(tl, types) == \A i \in 1..Len(tl) : tl[i].type \in types

\* the sum of the durations the first n items give, 5 s for one that gives none
RECURSIVE SumGivenDurations(_, _)
SumGivenDurations(tl, n) ==
    IF n = 0 THEN 0
    ELSE SumGivenDurations(tl, n - 1)
            + (IF IsDefined(tl[n].duration) THEN Val(tl[n].duration)
               ELSE 5 * MsPerSecond)

\* C11: for a timeline of image items only, renderJob ends without error and
\* with totalDuration the sum of the items' durations, 5 s for each item that
\* gives none.
C11_ImagesTotalIsSum ==
    (IsDefined(cOut) /\ AllOfType(cIn.instructions.timeline, {"image"})) =>
        /\ Val(cOut).error = NoError
        /\ Val(cOut).totalDuration =
              SumGivenDurations(cIn.instructions.timeline,
                                Len(cIn.instructions.timeline))

C11_Witness ==
    /\ IsDefined(cOut)
    /\ AllOfType(cIn.instructions.timeline, {"image"})
    /\ Len(cIn.instructions.timeline) >= 2
    /\ \E i, h \in 1..Len(cIn.instructions.timeline) :
          /\ IsDefined(cIn.instructions.timeline[i].duration)
          /\ ~IsDefined(cIn.instructions.timeline[h].duration)

\* C12: when renderJob ends, the timelineStart of every audio item is its
\* startTime if it gives one and otherwise the cursor of the walk at its
\* position, and the timelineStart of every video and image item is the
\* cursor of the walk at its position (audio items do not move the cursor).
C12_AudioStartIsCursorAtPosition ==
    (IsDefined(cOut) /\ Val(cOut).error = NoError) =>
        \A i \in 1..Len(cIn.instructions.timeline) :
            LET item == cIn.instructions.timeline[i]
                cursor == Walk(cIn.instructions.timeline, i - 1, cIn.probe).cursor
            IN /\ item.type = "audio" =>
                     Val(cOut).timelineStart[i] =
                        Some(IF IsDefined(item.startTime) THEN Val(item.startTime)
                             ELSE cursor)
               /\ item.type \in {"video", "image"} =>
                     Val(cOut).timelineStart[i] = Some(cursor)

\* C13: getScalingFilter returns an expression for every mode, and for a mode
\* that is none of fill, contain, cover, scale-down, none it returns the cover
\* expression for the width and height.
C13_BuildTotalWithCoverFallback ==
    IsDefined(cOut) =>
        /\ ~Val(cOut).built.threw
        /\ cIn.mode \notin {"fill", "contain", "cover", "scale-down", "none"} =>
              Val(cOut).built.filter =
                 ReplaceSize(SCALING_MODES["cover"], cIn.width, cIn.height)

\* C14: for a source smaller than the frame on both axes, contain scales it
\* up until it touches the frame on one axis while scale-down keeps it at or
\* below its native size, so the two sizes differ; for a source larger than
\* the frame on both axes the two sizes are the same.
C14_ContainUpscalesScaleDownDoesNot ==
    IsDefined(cOut) =>
        /\ /\ Val(cOut).scaleDown.w <= cIn.iw
           /\ Val(cOut).scaleDown.h <= cIn.ih
        /\ (cIn.iw < cIn.width /\ cIn.ih < cIn.height) =>
              /\ \/ Val(cOut).contain.w = cIn.width
                 \/ Val(cOut).contain.h = cIn.height
              /\ Val(cOut).contain # Val(cOut).scaleDown
        /\ (cIn.iw > cIn.width /\ cIn.ih > cIn.height) =>
              Val(cOut).contain = Val(cOut).scaleDown

ClockMs(c) == ((c.hh * 3600 + c.mm * 60 + c.ss) * 1000) + c.mmm

\* the overlay a block of at least 3 lines stands for
OverlayOf(b) ==
    [type |-> "text", text |-> Join(b.text, <<"\n">>), style |-> "subtitle",
     startTime |-> Some(ClockMs(b.start)),
     duration |-> Some(ClockMs(b.end) - ClockMs(b.start)),
     position |-> "bottom-center"]

UsedByProcessingJob(filename) ==
    \E j \in JobIds : jobs[j].status = "processing" /\ filename \in run[j].fileMap

\* C16: a delete of an uploaded file that a processing job uses is answered
\* 409 and keeps the file; a delete of an uploaded file that no processing job
\* uses is answered with success and removes the file.
C16_DeleteConflictOrRemoval ==
    [][\A filename \in Files :
          (DeleteUpload(filename) /\ filename \in uploads) =>
              IF UsedByProcessingJob(filename)
              THEN lastResp'.code = 409 /\ filename \in uploads'
              ELSE lastResp'.code = 200 /\ filename \notin uploads']_vars

\* r is num / den rounded to the nearest integer, halves upwards
IsNearest(r, num, den) == (2 * r - 1) * den <= 2 * num /\ 2 * num < (2 * r + 1) * den

\* min(100, round(elapsed / totalDuration * 100)), elapsed in s, total in ms
ExpectedPercent(elapsed, totalDuration) ==
    LET num == elapsed * 1000 * 100
        r == CHOOSE r \in 0..((num \div totalDuration) + 1) :
                 IsNearest(r, num, totalDuration)
    IN IF r > 100 THEN 100 ELSE r

Timeline ==
    IF IsDefined(cOut) THEN Val(cOut).fullTimeline
    ELSE FullTimeline(cIn.instructions).timeline
Compiled == IsDefined(cOut) /\ Val(cOut).error = NoError
Program == Val(cOut).filterComplex

HasFilter(statement, name) ==
    \E k \in 1..Len(statement.filters) : statement.filters[k].name = name

StatementsWith(name) == {k \in 1..Len(Program) : HasFilter(Program[k], name)}

ItemsOfType(types) == {i \in 1..Len(Timeline) : Timeline[i].type \in types}

\* the statement of the audio item at position i: the one into [oa k], k the
\* number of audio items before it
AudioStatement(i) ==
    LET k == Cardinality({h \in ItemsOfType({"audio"}) : h < i})
    IN Program[CHOOSE n \in 1..Len(Program) : Program[n].out = Label("oa", k)]

\* startTime if given, else the cursor of the walk at the item's position
AbsoluteStart(i) ==
    IF IsDefined(Timeline[i].startTime) THEN Val(Timeline[i].startTime)
    ELSE Walk(Timeline, i - 1, cIn.probe).cursor

\* C18: the statement of every audio item starts with a delay of its
\* absolute start in ms (anull when that is 0) and has a volume filter exactly
\* when the item's volume is not 100.
C18_AudioDelayIsAbsoluteStart ==
    Compiled =>
        \A i \in ItemsOfType({"audio"}) :
            LET s == AudioStatement(i)
                volume == IF IsDefined(Timeline[i].volume)
                          THEN Val(Timeline[i].volume) ELSE 100
            IN /\ s.filters[1] = IF AbsoluteStart(i) = 0 THEN Filter("anull", 0)
                                 ELSE Filter("adelay", AbsoluteStart(i))
               /\ HasFilter(s, "volume") <=> volume # 100

\* C19 as stated: with exactly one video or image item the program has no
\* concat statement and no copy statement but the terminal one into [outv].
C19_SinglePassesThroughUncopied ==
    (Compiled /\ Cardinality(ItemsOfType({"video", "image"})) = 1) =>
        /\ StatementsWith("concat:v") = {}
        /\ \A k \in StatementsWith("copy") : Program[k].out = Label("outv", 0)

\* C19, amended: with exactly one video or image item the program has no
\* concat statement, and exactly one copy statement besides the terminal one:
\* it relabels the scaled label to [concatv], from which the text and
\* terminal stage goes on.
C19_SingleIsCopiedToConcatv ==
    (Compiled /\ Cardinality(ItemsOfType({"video", "image"})) = 1) =>
        LET i == CHOOSE i \in ItemsOfType({"video", "image"}) : TRUE
            inputIndex == Cardinality({h \in ItemsOfType({"video", "image", "audio"}) :
                                          h < i})
            relabels == {k \in StatementsWith("copy") :
                            Program[k].out # Label("outv", 0)}
        IN /\ StatementsWith("concat:v") = {}
           /\ Cardinality(relabels) = 1
           /\ \A k \in relabels :
                 /\ Program[k] = Statement(<<Label("v", inputIndex)>>,
                                           <<Filter("copy", 0)>>,
                                           Label("concatv", 0))
                 /\ \E n \in (k + 1)..Len(Program) :
                       Program[n].ins = <<Label("concatv", 0)>>
           /\ \A n \in 1..Len(Program) :
                 Program[n].out.name \in {"txt", "outv"} =>
                    Program[n].ins # <<Label("v", inputIndex)>>

C19_Witness ==
    /\ Compiled
    /\ Cardinality(ItemsOfType({"video", "image"})) = 1
    /\ ItemsOfType({"audio"}) # {}
    /\ \E i \in ItemsOfType({"video", "image"}), h \in ItemsOfType({"audio"}) :
          h < i
    /\ \E k \in StatementsWith("copy") : Program[k].out = Label("concatv", 0)

\* C20: with no video and no image item renderJob fails: no filter program
\* is handed over and command.run() is not reached.
C20_NoVideoTrackFails ==
    (IsDefined(cOut) /\ ItemsOfType({"video", "image"}) = {}) =>
        Val(cOut).error # NoError

VisualItems == ItemsOfType({"video", "image"})

\* the index of the input an item registers: the number of video, image and
\* audio items before it
InputIndexOf(i) ==
    Cardinality({h \in ItemsOfType({"video", "image", "audio"}) : h < i})

\* the resolved duration of a video or image item: what it adds to the cursor
ResolvedDuration(i) ==
    Walk(Timeline, i, cIn.probe).cursor - Walk(Timeline, i - 1, cIn.probe).cursor

\* the i-th smallest element of a set of positions
RECURSIVE Sorted(_)
Sorted(S) ==
    IF S = {} THEN << >>
    ELSE LET m == CHOOSE m \in S : \A h \in S : m <= h
         IN <<m>> \o Sorted(S \ {m})

\* the video labels of the video and image items, in timeline order
VisualLabels ==
    [k \in 1..Cardinality(VisualItems) |->
        Label("v", InputIndexOf(Sorted(VisualItems)[k]))]

\* C21 as stated: with n > 1 video or image items there are n video inputs
\* and one concat statement, listing the n video labels in timeline order,
\* each tagged with the item's resolved duration.
C21_ConcatTaggedWithDurations ==
    (Compiled /\ Cardinality(VisualItems) > 1) =>
        /\ Cardinality(StatementsWith("scaling")) = Cardinality(VisualItems)
        /\ Cardinality(StatementsWith("concat:v")) = 1
        /\ \A k \in StatementsWith("concat:v") :
              /\ Program[k].ins = VisualLabels
              /\ Program[k].tags =
                    [n \in 1..Cardinality(VisualItems) |->
                        ResolvedDuration(Sorted(VisualItems)[n])]

\* C21, amended: with n > 1 video or image items there are n video inputs and
\* one concat statement, listing the n video labels in timeline order with no
\* duration tag; each item's resolved duration is the -t option of its input,
\* and totalDuration is at least their sum.
C21_ConcatUntaggedInputsTimed ==
    (Compiled /\ Cardinality(VisualItems) > 1) =>
        /\ Cardinality(StatementsWith("scaling")) = Cardinality(VisualItems)
        /\ Len(Val(cOut).inputs) = Cardinality(ItemsOfType({"video", "image", "audio"}))
        /\ Cardinality(StatementsWith("concat:v")) = 1
        /\ \A k \in StatementsWith("concat:v") :
              /\ Program[k].ins = VisualLabels
              /\ Program[k].filters = <<Filter("concat:v", Cardinality(VisualItems))>>
              /\ Program[k].tags = << >>
              /\ Program[k].out = Label("concatv", 0)
        /\ \A i \in VisualItems :
              Val(cOut).inputs[InputIndexOf(i) + 1].t = ResolvedDuration(i)
        /\ Val(cOut).totalDuration >=
              Walk(Timeline, Len(Timeline), cIn.probe).cursor

\* a video cut to 2 s, then an image of 3 s: two inputs, one concat, total 5 s
C21_Witness ==
    /\ Compiled
    /\ Len(Timeline) = 2
    /\ Timeline[1].type = "video" /\ IsDefined(Timeline[1].cut)
    /\ Timeline[2].type = "image" /\ IsDefined(Timeline[2].duration)
    /\ cIn.probe.duration["v.mp4"] = Undefined
    /\ Len(Val(cOut).inputs) = 2
    /\ Cardinality(StatementsWith("concat:v")) = 1
    /\ Val(cOut).totalDuration = 5000

RawInput(label) == label.name \in {"in:v", "in:a"}

\* C22: in the filter program of every timeline, each input label of a
\* statement is a stream of a registered input or the output label of an
\* earlier statement, and no two statements have the same output label.
C22_LabelsDefinedBeforeUseOnce ==
    Compiled =>
        /\ \A n \in 1..Len(Program) : \A k \in 1..Len(Program[n].ins) :
              LET label == Program[n].ins[k]
              IN IF RawInput(label)
                 THEN label.i \in 0..(Len(Val(cOut).inputs) - 1)
                 ELSE \E h \in 1..(n - 1) : Program[h].out = label
        /\ \A n, h \in 1..Len(Program) :
              Program[n].out = Program[h].out => n = h

\* two text items over a concatenation, with an overlay audio
C22_Witness ==
    /\ Compiled
    /\ Cardinality(ItemsOfType({"text"})) >= 2
    /\ Cardinality(VisualItems) >= 1
    /\ \E n \in 1..Len(Program) :
          /\ Program[n].out = Label("txt", 1)
          /\ Program[n].ins = <<Label("txt", 0)>>

Producers(label) == {n \in 1..Len(Program) : Program[n].out = label}

Consumed(n) ==
    \E h \in (n + 1)..Len(Program) : \E k \in 1..Len(Program[h].ins) :
        Program[h].ins[k] = Program[n].out

\* C23: the program of every timeline has exactly one statement producing
\* [outv], exactly one producing [outa] if hasAudio and none otherwise, the
\* output options map just these, and every other label a statement produces
\* is an input of a later statement.
C23_TerminalsOnlyAreUnconsumed ==
    Compiled =>
        /\ Cardinality(Producers(Label("outv", 0))) = 1
        /\ Cardinality(Producers(Label("outa", 0))) =
              IF Val(cOut).hasAudio THEN 1 ELSE 0
        /\ Val(cOut).maps =
              IF Val(cOut).hasAudio THEN <<Label("outv", 0), Label("outa", 0)>>
              ELSE <<Label("outv", 0)>>
        /\ \A n \in 1..Len(Program) :
              Program[n].out \notin {Label("outv", 0), Label("outa", 0)} =>
                  Consumed(n)

\* a muted video, a video with an audio stream, and an overlay audio
C23_Witness ==
    /\ Compiled
    /\ Val(cOut).hasAudio
    /\ \E i \in ItemsOfType({"video"}) : Timeline[i].volume = Some(0)
    /\ Len(Val(cOut).audioLabels) = 1
    /\ Len(Val(cOut).overlayAudioLabels) = 1
    /\ Len(Val(cOut).videoLabels) = 2

\* the text items in resolved order: the explicit ones, then the subtitles
ResolvedTexts ==
    [k \in 1..Cardinality(ItemsOfType({"text"})) |->
        Timeline[Sorted(ItemsOfType({"text"}))[k]]]

\* the statement of the video reduction: the concat, or the copy to [concatv]
Reductions == {n \in 1..Len(Program) : Program[n].out = Label("concatv", 0)}

\* C24: the drawtext statements come after the statement of the video
\* reduction, one per text item in resolved order (explicit items, then
\* subtitles); the first takes the label of the reduction and each next one
\* the label of the one before it, as its only input; each produces a label
\* of its own; and each is enabled from the item's start on the output
\* timeline for the item's duration.
C24_TextChainAfterReduction ==
    (Compiled /\ ItemsOfType({"text"}) # {}) =>
        LET drawn == Sorted(StatementsWith("drawtext"))
        IN /\ Len(drawn) = Len(ResolvedTexts)
           /\ Cardinality(Reductions) = 1
           /\ \A k \in 1..Len(drawn) :
                 LET s == Program[drawn[k]]
                     item == ResolvedTexts[k]
                     start == IF IsDefined(item.startTime)
                              THEN Val(item.startTime) ELSE 0
                     length == IF IsDefined(item.duration)
                               THEN Val(item.duration) ELSE 5000
                 IN /\ \A n \in Reductions : n < drawn[k]
                    /\ s.filters[1].n = k - 1
                    /\ s.filters[1].args.enable = <<start, start + length>>
                    /\ s.ins = IF k = 1 THEN <<Label("concatv", 0)>>
                               ELSE <<Program[drawn[k - 1]].out>>
                    /\ Cardinality(Producers(s.out)) = 1

\* the fontSize of the drawtext of the k-th text item of the last invocation
DrawnFontSize(k) ==
    LET program == Val(cOut).filterComplex
        n == CHOOSE n \in 1..Len(program) : program[n].out = Label("txt", k - 1)
    IN program[n].filters[1].args.fontSize

\* C25: after any series of renders every preset of TEXT_STYLES has its
\* original font size, and a text item without a font size of its own is
\* drawn with the original size of its preset.
C25_PresetsNeverMutated ==
    IsDefined(cOut) =>
        /\ Val(cOut).styles =
              [name \in {"basic", "outlined", "dark", "tiktok", "subtitle"} |->
                  IF name = "subtitle" THEN 48 ELSE 72]
        /\ LET texts == SelectSeq(Val(cOut).timeline,
                                  LAMBDA item : item.type = "text")
           IN \A k \in 1..Len(texts) :
                 ~IsDefined(texts[k].fontSize) =>
                    DrawnFontSize(k) =
                       IF texts[k].style = Some("subtitle") THEN 48 ELSE 72

\* the video items that contribute audio: volume above 0 and an audio stream
AudibleVideos ==
    {i \in ItemsOfType({"video"}) :
        /\ IsDefined(Timeline[i].volume) => Val(Timeline[i].volume) > 0
        /\ Val(Timeline[i].filename) \in cIn.probe.audio}

SequentialLabels ==
    [k \in 1..Cardinality(AudibleVideos) |->
        Label("a", InputIndexOf(Sorted(AudibleVideos)[k]))]

OverlayLabels ==
    [k \in 1..Cardinality(ItemsOfType({"audio"})) |-> Label("oa", k - 1)]

\* the single sequential-audio label, if any, then the overlay labels
MixSet ==
    (IF Cardinality(AudibleVideos) = 0 THEN << >>
     ELSE IF Cardinality(AudibleVideos) = 1 THEN SequentialLabels
     ELSE <<Label("videocona", 0)>>) \o OverlayLabels

\* the statements that produce an audio label
AudioProducers ==
    {n \in 1..Len(Program) :
        Program[n].out.name \in {"a", "oa", "videocona", "outa"}}

\* what C26 says apart from the tags of the audio concatenation
AudioReducedFromMixSet ==
    /\ Val(cOut).hasAudio = (MixSet # << >>)
    /\ Cardinality(StatementsWith("concat:a")) =
          IF Cardinality(AudibleVideos) > 1 THEN 1 ELSE 0
    /\ \A k \in StatementsWith("concat:a") :
          /\ Program[k].ins = SequentialLabels
          /\ Program[k].out = Label("videocona", 0)
    /\ MixSet = << >> =>
          /\ AudioProducers = {}
          /\ Val(cOut).maps = <<Label("outv", 0)>>
    /\ Len(MixSet) = 1 =>
          /\ StatementsWith("amix") = {}
          /\ Cardinality(StatementsWith("aresample")) = 1
          /\ \A k \in StatementsWith("aresample") :
                Program[k] = Statement(MixSet, <<Filter("aresample", 1)>>,
                                       Label("outa", 0))
    /\ Len(MixSet) > 1 =>
          /\ StatementsWith("aresample") = {}
          /\ Cardinality(StatementsWith("amix")) = 1
          /\ \A k \in StatementsWith("amix") :
                Program[k] = Statement(MixSet, <<Filter("amix", Len(MixSet))>>,
                                       Label("outa", 0))

\* C26 as stated: the mix set is the sequential-audio label (the concat of
\* the video clips' audio labels when more than one, each tagged with its
\* source duration) then the overlay labels; an empty mix set gives no audio
\* statement or mapping, one member a single resample statement into the
\* terminal audio label, more a single longest-wins mix statement.
C26_AudioConcatTagged ==
    Compiled =>
        /\ AudioReducedFromMixSet
        /\ \A k \in StatementsWith("concat:a") :
              Program[k].tags =
                  [n \in 1..Cardinality(AudibleVideos) |->
                      ResolvedDuration(Sorted(AudibleVideos)[n])]

\* C26, amended: the same, but the concat of the video clips' audio labels
\* carries no duration tag (each clip's length is the -t option of its input).
C26_AudioConcatUntagged ==
    Compiled =>
        /\ AudioReducedFromMixSet
        /\ \A k \in StatementsWith("concat:a") :
              /\ Program[k].tags = << >>
              /\ \A n \in 1..Cardinality(AudibleVideos) :
                    LET i == Sorted(AudibleVideos)[n]
                    IN Val(cOut).inputs[InputIndexOf(i) + 1].t = ResolvedDuration(i)

\* two video clips with audio and an overlay: a concat, then a mix of two
C26_Witness ==
    /\ Compiled
    /\ Cardinality(AudibleVideos) = 2
    /\ Cardinality(ItemsOfType({"audio"})) = 1
    /\ Cardinality(StatementsWith("concat:a")) = 1
    /\ \E k \in StatementsWith("amix") :
          Program[k].ins = <<Label("videocona", 0), Label("oa", 0)>>

\* the number of ffprobe calls on a file in the last renderJob
ProbeCalls(file) ==
    Cardinality({n \in 1..Len(Val(cOut).probed) : Val(cOut).probed[n] = file})

\* C27: in one renderJob no file is probed more than once.
C27_EachAssetProbedOnce ==
    Compiled => \A file \in cIn.fileMap : ProbeCalls(file) <= 1

\* C28: command.run() is reached only with no error, after the filter
\* program (with its terminal labels), the output mappings and the start,
\* progress, end and error handlers are in place; whenever renderJob throws
\* (empty timeline, bad resolution, missing file, non-positive segment,
\* unknown text style) no process has been started.
C28_StartedOnlyAfterSetup ==
    IsDefined(cOut) =>
        /\ Val(cOut).error # NoError => ~Val(cOut).started
        /\ Val(cOut).started =>
              /\ Val(cOut).error = NoError
              /\ Producers(Label("outv", 0)) # {}
              /\ Val(cOut).hasAudio => Producers(Label("outa", 0)) # {}
              /\ Val(cOut).maps # << >>
              /\ \A k \in 1..Len(Val(cOut).maps) :
                    Producers(Val(cOut).maps[k]) # {}
              /\ {"start", "progress", "end", "error"} \subseteq Val(cOut).handlers
        /\ Val(cOut).error = NoError => Val(cOut).started

\* an unknown text style after an image was registered and scaled: an error,
\* with a filter program begun and no process
C28_Witness ==
    /\ IsDefined(cOut)
    /\ Val(cOut).error = ErrTextStyle
    /\ Len(Val(cOut).inputs) = 1
    /\ Val(cOut).filterComplex # << >>
    /\ ~Val(cOut).started

\* the delay the statement producing a label puts before its stream
DelayBefore(label) ==
    LET s == Program[CHOOSE n \in Producers(label) : TRUE]
        delays == {k \in 1..Len(s.filters) : s.filters[k].name = "adelay"}
    IN IF delays = {} THEN 0 ELSE s.filters[CHOOSE k \in delays : TRUE].n

\* the length of the streams of the first k sequential audio labels: the -t
\* of their inputs
RECURSIVE SequentialLength(_)
SequentialLength(k) ==
    IF k = 0 THEN 0
    ELSE SequentialLength(k - 1)
            + Val(cOut).inputs[Val(cOut).audioLabels[k].i + 1].t

\* where in [outa] the audio of the k-th video with audio starts: after the
\* streams concatenated before it (the mix starts all its inputs at 0)
VideoAudioStart(k) ==
    SequentialLength(k - 1) + DelayBefore(Val(cOut).audioLabels[k])

\* C29: in the output the audio of every video clip starts at the clip's
\* absolute start on the timeline.
C29_VideoAudioAtClipStart ==
    Compiled =>
        \A k \in 1..Cardinality(AudibleVideos) :
            VideoAudioStart(k) =
                Walk(Timeline, Sorted(AudibleVideos)[k] - 1, cIn.probe).cursor

====
